---- MODULE Spec2Model ----
(***************************************************************************)
(* Project Aegis: the regional liquidity pools (LiquidityPool), their LP    *)
(* share ledger (LPERC20), the PoolFactory registry and the staking token   *)
(* (SimpleStakingToken), as deployed by the truffle migration.              *)
(*                                                                         *)
(* Every top-level command is one transaction of the hosting ledger: it     *)
(* runs to completion or reverts as a whole.  A command is modelled by an   *)
(* operator from the world before the call to a result [ok, err, w]; a      *)
(* revert returns the world of the call's entry (the ledger's rollback of   *)
(* that call frame), and a try/catch around a peer call keeps the caller's  *)
(* world when the peer call reverts.                                        *)
(***************************************************************************)
EXTENDS Integers, Sequences, FiniteSets, TLC

\* ------------------------------------------------------------ constants
COLLATERAL_PERCENTAGE_BP == 2000
BASIS_POINTS == 10000
UNSTAKE_TIME_LOCK_DURATION == 86400
\* SimpleStakingToken mints 10000 * 10^18 base units to every caller of
\* transfer/transferFrom on its first call; the model keeps the 10000 and
\* moves amounts far below it, as the deployed amounts are far below 10^22.
INITIAL_TOKEN_AMOUNT == 10000

\* ------------------------------------------------------------ bounds
MaxPools == 2          \* pools the registry may hold
DemoPools == 1         \* demo pools the migration has created
MintAmount == 50       \* staking tokens the migration minted to each user
MaxOps == 3            \* successful commands, repayments aside, in one behaviour
MaxDebts == 2          \* debts per user and pool
MaxTicks == 1          \* blocks mined after the deployment
BlockInterval == 86400 \* seconds between two blocks
DeployTime == 1        \* block.timestamp of the deployment

\* The element of a one-element set: The({e(x) : x \in {v}}) is e(v), with v
\* computed once however often e mentions x.
The(S) == CHOOSE x \in S : TRUE

Min(a, b) == IF a < b THEN a ELSE b

PoolAddrs == <<"pool1", "pool2", "pool3", "pool4", "pool5">>
DemoRegions == <<"Mumbai", "Delhi", "Bangalore">>
MigratedPools == Len(DemoRegions)   \* the migration creates one pool per region
AllPools ==
    {PoolAddrs[k] : k \in 1..(IF MaxPools > MigratedPools THEN MaxPools
                              ELSE MigratedPools)}
Regions == {DemoRegions[k] : k \in 1..Min(MaxPools, Len(DemoRegions))}
Users == {"u1", "u2"}
Owner == "owner"
Merchant == "merchant"
Outsider == "outsider"
ZeroAddress == "0x0"
Factory == "factory"
Accounts == Users \cup {Owner, Merchant, Outsider}
Holders == Accounts \cup AllPools

StakeAmounts == {5, 25}
PayAmounts == {2, 6}
LpAmounts == {1, 5}
RepayAmounts == {1, 2}
MoveAmounts == {5, 25}

ACTIVE == "ACTIVE"
PAUSED == "PAUSED"
INACTIVE == "INACTIVE"
PoolStatusContract == {ACTIVE, PAUSED, INACTIVE}

\* ------------------------------------------------------------ state
VARIABLES
    owner,                      \* PoolFactory.owner
    pools,                      \* PoolFactory.pools, in creation order
    regionExists,               \* PoolFactory.regionExists, as a set
    poolToRegion,               \* PoolFactory.poolToRegion ("" when unset)
    status,                     \* LiquidityPool.status, per pool
    totalLiquidityStaked,       \* per pool
    totalDebt,                  \* per pool
    stakers,                    \* per pool and user: the Stake struct
    userDebts,                  \* per pool and user: the Debt[] array
    debtRelatedUnstakeTimelock, \* per pool and user
    lpBalances,                 \* LPERC20._balances, per pool and holder
    lpTotalSupply,              \* LPERC20._totalSupply, per pool
    tokenBalances,              \* staking token balances
    hasReceivedInitialTokens,   \* SimpleStakingToken.hasReceivedInitialTokens
    now,                        \* block.timestamp
    ticks,                      \* blocks mined since the deployment
    nops,                       \* successful commands so far (a repayment is
                                \* bounded by the debt it reduces, and not counted)
    debtLedger,                 \* history: per debt, original amount and repayments
    last                        \* history: the last command and its outcome

factoryVars == <<owner, pools, regionExists, poolToRegion>>
poolVars == <<totalLiquidityStaked, totalDebt, stakers, userDebts,
              debtRelatedUnstakeTimelock, lpBalances, lpTotalSupply>>
tokenVars == <<tokenBalances, hasReceivedInitialTokens>>
vars == <<owner, pools, regionExists, poolToRegion, status,
          totalLiquidityStaked, totalDebt, stakers, userDebts,
          debtRelatedUnstakeTimelock, lpBalances, lpTotalSupply,
          tokenBalances, hasReceivedInitialTokens,
          now, ticks, nops, debtLedger, last>>

\* The part of the state a pool command can change, as one value.
World ==
    [totalLiquidityStaked |-> totalLiquidityStaked,
     totalDebt |-> totalDebt,
     stakers |-> stakers,
     userDebts |-> userDebts,
     debtRelatedUnstakeTimelock |-> debtRelatedUnstakeTimelock,
     lpBalances |-> lpBalances,
     lpTotalSupply |-> lpTotalSupply,
     tokenBalances |-> tokenBalances,
     hasReceivedInitialTokens |-> hasReceivedInitialTokens]

Registered(a) == \E i \in 1..Len(pools) : pools[i] = a

\* whenActive that only stops an Inactive pool.
whenActive_notInactive(p) == status[p] # INACTIVE

\* The condition of the whenActive modifier.
whenActive(p) == status[p] = ACTIVE

Ok(w) == [ok |-> TRUE, err |-> "", w |-> w]
Revert(w, msg) == [ok |-> FALSE, err |-> msg, w |-> w]

\* ------------------------------------------------------------ staking token
mintInitialTokens(w, user) ==
    IF w.hasReceivedInitialTokens[user] THEN w
    ELSE [w EXCEPT !.hasReceivedInitialTokens[user] = TRUE,
                   !.tokenBalances[user] = @ + INITIAL_TOKEN_AMOUNT]

\* SimpleStakingToken.transfer called by `sender`.
tokenTransfer(w, sender, recipient, amount) ==
    LET w1 == mintInitialTokens(w, sender) IN
    IF recipient = ZeroAddress THEN Revert(w, "ERC20InvalidReceiver")
    ELSE IF w1.tokenBalances[sender] < amount
    THEN Revert(w, "ERC20InsufficientBalance")
    ELSE Ok([w1 EXCEPT !.tokenBalances[sender] = @ - amount,
                       !.tokenBalances[recipient] = @ + amount])

\* SimpleStakingToken.transferFrom called by `spender`; `allowance` is what
\* `from` has approved to `spender` when the call runs.  The front end approves
\* the amount of a command right before sending it, so the allowance is an
\* input of the command and is used up by it.
tokenTransferFrom(w, spender, from, recipient, amount, allowance) ==
    LET w1 == mintInitialTokens(w, spender) IN
    IF allowance < amount THEN Revert(w, "ERC20InsufficientAllowance")
    ELSE IF recipient = ZeroAddress THEN Revert(w, "ERC20InvalidReceiver")
    ELSE IF w1.tokenBalances[from] < amount
    THEN Revert(w, "ERC20InsufficientBalance")
    ELSE Ok([w1 EXCEPT !.tokenBalances[from] = @ - amount,
                       !.tokenBalances[recipient] = @ + amount])

\* ------------------------------------------------------------ LP ledger
lpMint(w, p, to, amount) ==
    IF to = ZeroAddress THEN Revert(w, "LPERC20: mint to the zero address")
    ELSE Ok([w EXCEPT !.lpTotalSupply[p] = @ + amount,
                      !.lpBalances[p][to] = @ + amount])

\* lpBurn with the supply left as it was.
lpBurn_keepSupply(w, p, from, amount) ==
    IF from = ZeroAddress THEN Revert(w, "LPERC20: burn from the zero address")
    ELSE IF w.lpBalances[p][from] < amount
    THEN Revert(w, "LPERC20: burn amount exceeds balance")
    ELSE Ok([w EXCEPT !.lpBalances[p][from] = @ - amount])

lpBurn(w, p, from, amount) ==
    IF from = ZeroAddress THEN Revert(w, "LPERC20: burn from the zero address")
    ELSE IF w.lpBalances[p][from] < amount
    THEN Revert(w, "LPERC20: burn amount exceeds balance")
    ELSE Ok([w EXCEPT !.lpBalances[p][from] = @ - amount,
                      !.lpTotalSupply[p] = @ - amount])

lpTransfer(w, p, from, to, amount) ==
    IF from = ZeroAddress THEN Revert(w, "LPERC20: transfer from the zero address")
    ELSE IF to = ZeroAddress THEN Revert(w, "LPERC20: transfer to the zero address")
    ELSE IF w.lpBalances[p][from] < amount
    THEN Revert(w, "LPERC20: transfer amount exceeds balance")
    ELSE Ok([w EXCEPT !.lpBalances[p][from] = @ - amount,
                      !.lpBalances[p][to] = @ + amount])

\* ------------------------------------------------------------ pool views
RECURSIVE SumUnrepaid(_)
SumUnrepaid(debts) ==
    IF debts = <<>> THEN 0
    ELSE (IF Head(debts).isRepaid THEN 0 ELSE Head(debts).amount)
         + SumUnrepaid(Tail(debts))

RECURSIVE SumRepaid(_)
SumRepaid(debts) ==
    IF debts = <<>> THEN 0
    ELSE (IF Head(debts).isRepaid THEN Head(debts).amount ELSE 0)
         + SumRepaid(Tail(debts))

\* getActiveDebtAmount with the isRepaid test inverted.
getActiveDebtAmount_repaid(w, p, user) == SumRepaid(w.userDebts[p][user])

getActiveDebtAmount(w, p, user) == SumUnrepaid(w.userDebts[p][user])

getCollateralAvailable(w, p, user) ==
    LET debt == SumUnrepaid(w.userDebts[p][user])
        c == w.stakers[p][user].collateralAmount
    IN IF c > debt THEN c - debt ELSE 0

RECURSIVE CollateralLoop(_, _, _, _, _)
CollateralLoop(w, p, user, i, totalCollateral) ==
    IF i > Len(pools) THEN totalCollateral
    ELSE CollateralLoop(w, p, user, i + 1,
             IF pools[i] # p
             THEN totalCollateral + w.stakers[pools[i]][user].collateralAmount
             ELSE totalCollateral)

getTotalCollateralAcrossPools(w, p, user) ==
    CollateralLoop(w, p, user, 1, w.stakers[p][user].collateralAmount)

\* ------------------------------------------------------------ stake / unstake
\* lpTokensToMint that is always one share per token.
lpTokensToMint_oneToOne(amount, supply, liquidity) == amount

\* The shares stake mints (lines 276-277).
lpTokensToMint(amount, supply, liquidity) ==
    IF supply = 0 THEN amount ELSE (amount * supply) \div liquidity

stake(w, p, sender, amount, allowance) ==
    IF ~whenActive(p) THEN Revert(w, "Pool not active")
    ELSE IF amount <= 0 THEN Revert(w, "Amount must be > 0")
    ELSE
    The({
    IF ~t.ok THEN Revert(w, t.err)
    ELSE
    LET w1 == t.w
        collateralAmount == (amount * COLLATERAL_PERCENTAGE_BP) \div BASIS_POINTS
        supply == w1.lpTotalSupply[p]
    IN
    IF supply # 0 /\ w1.totalLiquidityStaked[p] = 0
    THEN Revert(w, "Panic: division by zero")
    ELSE
    LET minted == lpTokensToMint(amount, supply, w1.totalLiquidityStaked[p])
        w2 == [w1 EXCEPT
                  !.stakers[p][sender] =
                      [stakedAmount |-> @.stakedAmount + amount,
                       collateralAmount |-> @.collateralAmount + collateralAmount,
                       lpTokensMinted |-> @.lpTokensMinted + minted,
                       stakeTimestamp |-> now],
                  !.totalLiquidityStaked[p] = @ + amount]
        m == lpMint(w2, p, sender, minted)
    IN IF m.ok THEN m ELSE Revert(w, m.err) :
    t \in {tokenTransferFrom(w, p, sender, p, amount, allowance)}})

\* stakedAmountToReturn as the exact quotient, without the basis points.
stakedAmountToReturn_exact(userStake, lpTokenAmount) ==
    (userStake.stakedAmount * lpTokenAmount) \div userStake.lpTokensMinted

\* The value unstake returns (lines 296-297): the proportion in basis points,
\* rounded down, then that proportion of the stake, rounded down.
stakedAmountToReturn(userStake, lpTokenAmount) ==
    (userStake.stakedAmount
        * ((lpTokenAmount * BASIS_POINTS) \div userStake.lpTokensMinted))
       \div BASIS_POINTS

unstake(w, p, sender, lpTokenAmount) ==
    IF ~whenActive(p) THEN Revert(w, "Pool not active")
    ELSE IF lpTokenAmount <= 0 THEN Revert(w, "LP token amount must be > 0")
    ELSE
    LET userStake == w.stakers[p][sender] IN
    IF userStake.lpTokensMinted < lpTokenAmount
    THEN Revert(w, "Insufficient LP tokens")
    ELSE
    LET proportionBasisPoints ==
            (lpTokenAmount * BASIS_POINTS) \div userStake.lpTokensMinted
        toReturn == stakedAmountToReturn(userStake, lpTokenAmount)
        collateralToReduce ==
            (userStake.collateralAmount * proportionBasisPoints) \div BASIS_POINTS
        remainingCollateral == userStake.collateralAmount - collateralToReduce
        activeDebt == getActiveDebtAmount(w, p, sender)
    IN
    IF remainingCollateral < activeDebt THEN Revert(w, "Insufficient collateral")
    ELSE IF w.totalLiquidityStaked[p] < toReturn
    THEN Revert(w, "Panic: arithmetic underflow")
    ELSE
    LET w1 == [w EXCEPT
                  !.stakers[p][sender] =
                      [stakedAmount |-> @.stakedAmount - toReturn,
                       collateralAmount |-> @.collateralAmount - collateralToReduce,
                       lpTokensMinted |-> @.lpTokensMinted - lpTokenAmount,
                       stakeTimestamp |-> @.stakeTimestamp],
                  !.totalLiquidityStaked[p] = @ - toReturn]
    IN
    The({IF ~b.ok THEN Revert(w, b.err)
         ELSE The({IF t.ok THEN t ELSE Revert(w, t.err) :
                   t \in {tokenTransfer(b.w, p, sender, toReturn)}}) :
         b \in {lpBurn(w1, p, sender, lpTokenAmount)}})

\* ------------------------------------------------------------ cross-pool protocol
\* receiveLiquidity that accepts the notification and credits nothing.
receiveLiquidity_noCredit(w, p, sender, amount) ==
    IF sender = ZeroAddress THEN Revert(w, "Invalid caller")
    ELSE IF ~Registered(sender) THEN Revert(w, "Unauthorized caller")
    ELSE Ok(w)

receiveLiquidity(w, p, sender, amount) ==
    IF sender = ZeroAddress THEN Revert(w, "Invalid caller")
    ELSE IF ~Registered(sender) THEN Revert(w, "Unauthorized caller")
    ELSE Ok([w EXCEPT !.totalLiquidityStaked[p] = @ + amount])

\* The isValidPool loop shared by transferLiquidityToPool and
\* contributeLiquidityForPayment.
isValidPool(sender, targetPool) ==
    \E i \in 1..Len(pools) : pools[i] = sender \/ pools[i] = targetPool

\* The tail shared by the two outbound commands: move the tokens, debit the
\* pool, notify the target (a call to an address without code reverts).
moveToPool(w, p, targetPool, amount, failure) ==
    The({IF ~t.ok THEN Revert(w, failure)
         ELSE IF ~Registered(targetPool) THEN Revert(w, "call to non-contract")
         ELSE The({IF r.ok THEN r ELSE Revert(w, r.err) :
                   r \in {receiveLiquidity(
                             [t.w EXCEPT !.totalLiquidityStaked[p] = @ - amount],
                             targetPool, p, amount)}}) :
         t \in {tokenTransfer(w, p, targetPool, amount)}})

transferLiquidityToPool(w, p, sender, targetPool, user, amount) ==
    IF sender = ZeroAddress THEN Revert(w, "Invalid caller")
    ELSE IF amount <= 0 THEN Revert(w, "Amount must be > 0")
    ELSE IF w.totalLiquidityStaked[p] < amount
    THEN Revert(w, "Insufficient liquidity")
    ELSE IF ~isValidPool(sender, targetPool)
    THEN Revert(w, "Unauthorized transfer")
    ELSE moveToPool(w, p, targetPool, amount, "Transfer failed")

contributeLiquidityForPayment(w, p, sender, targetPool, user, amount) ==
    IF sender = ZeroAddress THEN Revert(w, "Invalid caller")
    ELSE IF amount <= 0 THEN Revert(w, "Amount must be > 0")
    ELSE IF w.totalLiquidityStaked[p] < amount
    THEN Revert(w, "Insufficient liquidity")
    ELSE
    LET userCollateral ==
            (w.stakers[p][user].stakedAmount * COLLATERAL_PERCENTAGE_BP)
                \div BASIS_POINTS
    IN
    IF userCollateral < amount THEN Revert(w, "Insufficient collateral")
    ELSE IF ~isValidPool(sender, targetPool)
    THEN Revert(w, "Unauthorized contribution")
    ELSE moveToPool(w, p, targetPool, amount, "Contribution transfer failed")

\* ------------------------------------------------------------ fallback payment
\* peerCallDone that counts a failed call as done.
peerCallDone_always(t) == TRUE

\* The try block of a peer command is entered: the call did not revert.
peerCallDone(t) == t.ok

\* The loop of redistributeFundsFromPools from registry index i on; a
\* reverting peer call leaves the world and the running totals as they were.
RECURSIVE RedistributeLoop(_, _, _, _, _, _)
RedistributeLoop(w, p, user, i, stillNeeded, redistributedAmount) ==
    IF i > Len(pools) \/ stillNeeded = 0
    THEN [w |-> w, amount |-> redistributedAmount]
    ELSE
    LET poolAddress == pools[i] IN
    IF poolAddress = p
    THEN RedistributeLoop(w, p, user, i + 1, stillNeeded, redistributedAmount)
    ELSE
    LET poolCollateral == getCollateralAvailable(w, poolAddress, user)
        poolLiquidity == w.totalLiquidityStaked[poolAddress]
        canTakeFromPool == Min(poolCollateral, stillNeeded)
    IN
    The({IF poolLiquidity >= canTakeFromPool /\ canTakeFromPool > 0
            /\ peerCallDone(t)
         THEN RedistributeLoop(t.w, p, user, i + 1, stillNeeded - canTakeFromPool,
                               redistributedAmount + canTakeFromPool)
         ELSE RedistributeLoop(w, p, user, i + 1, stillNeeded, redistributedAmount) :
         t \in {transferLiquidityToPool(w, poolAddress, p, p, user,
                                        canTakeFromPool)}})

redistributeFundsFromPools(w, p, user, requiredAmount, currentPoolAvailable) ==
    IF requiredAmount < currentPoolAvailable
    THEN [ok |-> FALSE, err |-> "Panic: arithmetic underflow", w |-> w, amount |-> 0]
    ELSE
    The({[ok |-> TRUE, err |-> "", w |-> r.w, amount |-> r.amount] :
         r \in {RedistributeLoop(w, p, user, 1,
                                 requiredAmount - currentPoolAvailable,
                                 currentPoolAvailable)}})

RECURSIVE AddLiquidityLoop(_, _, _, _, _, _)
AddLiquidityLoop(w, p, user, i, stillNeeded, totalAvailable) ==
    IF i > Len(pools) \/ stillNeeded = 0
    THEN [w |-> w, amount |-> totalAvailable]
    ELSE
    LET poolAddress == pools[i] IN
    IF poolAddress = p
    THEN AddLiquidityLoop(w, p, user, i + 1, stillNeeded, totalAvailable)
    ELSE
    LET userStakeInPool == w.stakers[poolAddress][user].stakedAmount
        userCollateralInPool ==
            (userStakeInPool * COLLATERAL_PERCENTAGE_BP) \div BASIS_POINTS
        availableFromPool == Min(userCollateralInPool, stillNeeded)
        poolLiquidity == w.totalLiquidityStaked[poolAddress]
    IN
    The({IF availableFromPool > 0 /\ poolLiquidity >= availableFromPool
            /\ peerCallDone(t)
         THEN AddLiquidityLoop(t.w, p, user, i + 1, stillNeeded - availableFromPool,
                               totalAvailable + availableFromPool)
         ELSE AddLiquidityLoop(w, p, user, i + 1, stillNeeded, totalAvailable) :
         t \in {contributeLiquidityForPayment(w, poolAddress, p, p, user,
                                              availableFromPool)}})

addLiquidityFromNewPools(w, p, user, requiredAmount, currentAvailable) ==
    IF requiredAmount < currentAvailable
    THEN [ok |-> FALSE, err |-> "Panic: arithmetic underflow", w |-> w, amount |-> 0]
    ELSE
    The({[ok |-> TRUE, err |-> "", w |-> r.w, amount |-> r.amount] :
         r \in {AddLiquidityLoop(w, p, user, 1, requiredAmount - currentAvailable,
                                 currentAvailable)}})

\* The collateral executeOriginalFallbackPay stores: 20% of the stake left.
recomputedCollateral(userStake, amount) ==
    ((userStake.stakedAmount - amount) * COLLATERAL_PERCENTAGE_BP)
        \div BASIS_POINTS

\* pushDebt that puts the new debt in front of the others.
pushDebt_front(debts, debt) == <<debt>> \o debts

\* userDebts[msg.sender].push(...) (lines 424-430).
pushDebt(debts, debt) == Append(debts, debt)

executeOriginalFallbackPay(w, p, sender, merchantAddress, amount) ==
    IF w.totalLiquidityStaked[p] < amount
    THEN Revert(w, "Insufficient pool liquidity")
    ELSE IF w.lpTotalSupply[p] = 0 THEN Revert(w, "No LP tokens to burn")
    ELSE
    LET lpTokensToBurn ==
            (amount * w.lpTotalSupply[p]) \div w.totalLiquidityStaked[p]
        userStake == w.stakers[p][sender]
    IN
    IF w.lpBalances[p][sender] < lpTokensToBurn
    THEN Revert(w, "Insufficient LP tokens")
    ELSE IF userStake.lpTokensMinted < lpTokensToBurn
    THEN Revert(w, "Insufficient minted LP tokens")
    ELSE IF userStake.stakedAmount < amount
    THEN Revert(w, "Panic: arithmetic underflow")
    ELSE
    LET w1 == [w EXCEPT
                  !.stakers[p][sender] =
                      [stakedAmount |-> @.stakedAmount - amount,
                       collateralAmount |-> recomputedCollateral(@, amount),
                       lpTokensMinted |-> @.lpTokensMinted - lpTokensToBurn,
                       stakeTimestamp |-> @.stakeTimestamp],
                  !.totalLiquidityStaked[p] = @ - amount]
    IN
    The({
    IF ~b.ok THEN Revert(w, b.err)
    ELSE
    LET newTimelock == now + UNSTAKE_TIME_LOCK_DURATION
        w2 == [b.w EXCEPT
                  !.userDebts[p][sender] =
                      pushDebt(@, [user |-> sender,
                                   merchantAddress |-> merchantAddress,
                                   amount |-> amount,
                                   timestamp |-> now,
                                   isRepaid |-> FALSE]),
                  !.totalDebt[p] = @ + amount,
                  !.debtRelatedUnstakeTimelock[p][sender] =
                      IF newTimelock > @ THEN newTimelock ELSE @]
    IN The({IF t.ok THEN t ELSE Revert(w, t.err) :
            t \in {tokenTransfer(w2, p, merchantAddress, amount)}}) :
    b \in {lpBurn(w1, p, sender, lpTokensToBurn)}})

\* fastPath with || for &&.
fastPath_or(w, p, sender, amount) ==
    \/ getCollateralAvailable(w, p, sender) >= amount
    \/ w.totalLiquidityStaked[p] >= amount

\* TRUE when fallbackPay takes the local fast path.
fastPath(w, p, sender, amount) ==
    /\ getCollateralAvailable(w, p, sender) >= amount
    /\ w.totalLiquidityStaked[p] >= amount

\* TRUE when fallbackPay, off the fast path, calls redistributeFundsFromPools
\* (line 396).
phase1Runs(w, p, amount) == w.totalLiquidityStaked[p] < amount

\* Phase 1 of fallbackPay (lines 395-398): the world and
\* availableAfterRedistribution.
phase1(w, p, sender, amount) ==
    LET currentPoolCollateral == getCollateralAvailable(w, p, sender) IN
    IF phase1Runs(w, p, amount)
    THEN redistributeFundsFromPools(w, p, sender, amount, currentPoolCollateral)
    ELSE [ok |-> TRUE, err |-> "", w |-> w, amount |-> currentPoolCollateral]

\* Phase 1 and Phase 2 of fallbackPay (lines 395-402): the world and the
\* available amount after them.
fallbackPhases(w, p, sender, amount) ==
    The({IF ~r1.ok THEN r1
         ELSE IF r1.amount < amount
         THEN addLiquidityFromNewPools(r1.w, p, sender, amount, r1.amount)
         ELSE r1 :
         r1 \in {phase1(w, p, sender, amount)}})

\* What fallbackPay has executed when it stops: on a failure after the
\* phases, w is the world the peers' transfers have left.
fallbackPayBody(w, p, sender, merchantAddress, amount) ==
    IF ~whenActive(p) THEN Revert(w, "Pool not active")
    ELSE IF amount <= 0 THEN Revert(w, "Amount must be > 0")
    ELSE IF merchantAddress = ZeroAddress THEN Revert(w, "Invalid merchant address")
    ELSE
    LET totalCollateralAcrossPools == getTotalCollateralAcrossPools(w, p, sender)
    IN
    IF fastPath(w, p, sender, amount)
    THEN executeOriginalFallbackPay(w, p, sender, merchantAddress, amount)
    ELSE
    The({IF ~r2.ok THEN Revert(r2.w, r2.err)
         ELSE IF r2.amount < amount THEN Revert(r2.w, "Insufficient liquidity")
         ELSE IF amount > totalCollateralAcrossPools
         THEN Revert(r2.w, "Exceeds collateral limit")
         ELSE executeOriginalFallbackPay(r2.w, p, sender, merchantAddress, amount) :
         r2 \in {fallbackPhases(w, p, sender, amount)}})

\* requireOrRevert that reports the failure and keeps what was executed.
requireOrRevert_keep(w, r) == r

\* The require statements of fallbackPay revert the transaction: whatever the
\* call has executed, the peers' transfers included, is rolled back to w.
requireOrRevert(w, r) == IF r.ok THEN r ELSE Revert(w, r.err)

fallbackPay(w, p, sender, merchantAddress, amount) ==
    requireOrRevert(w, fallbackPayBody(w, p, sender, merchantAddress, amount))

\* ------------------------------------------------------------ repayment
\* settleDebt that marks the debt repaid by any repayment.
settleDebt_anyRepays(debt, amount) == [debt EXCEPT !.isRepaid = TRUE]

\* settleDebt that only ever reduces the amount.
settleDebt_reduce(debt, amount) == [debt EXCEPT !.amount = @ - amount]

\* The debt after a repayment of `amount` (lines 447-451).
settleDebt(debt, amount) ==
    IF amount = debt.amount
    THEN [debt EXCEPT !.isRepaid = TRUE]
    ELSE [debt EXCEPT !.amount = @ - amount]

\* timelockAfterRepay that clears the timer on every repayment.
timelockAfterRepay_always(activeDebt, timelock) == 0

\* The unstake timelock a repayment leaves (lines 453-455).
timelockAfterRepay(activeDebt, timelock) ==
    IF activeDebt = 0 THEN 0 ELSE timelock

\* debtIndex is the 0-based index of the source.
repayDebt(w, p, sender, debtIndex, amount, allowance) ==
    IF ~whenActive(p) THEN Revert(w, "Pool not active")
    ELSE IF amount <= 0 THEN Revert(w, "Amount must be > 0")
    ELSE IF debtIndex >= Len(w.userDebts[p][sender])
    THEN Revert(w, "Invalid debt index")
    ELSE
    LET debt == w.userDebts[p][sender][debtIndex + 1] IN
    IF debt.isRepaid THEN Revert(w, "Debt already repaid")
    ELSE IF amount > debt.amount THEN Revert(w, "Amount exceeds debt")
    ELSE
    The({
    IF ~t.ok THEN Revert(w, t.err)
    ELSE
    LET w1 == [t.w EXCEPT
                  !.userDebts[p][sender][debtIndex + 1] = settleDebt(@, amount),
                  !.totalDebt[p] = @ - amount]
    IN
    Ok([w1 EXCEPT !.debtRelatedUnstakeTimelock[p][sender] =
                      timelockAfterRepay(getActiveDebtAmount(w1, p, sender), @)]) :
    t \in {tokenTransferFrom(w, p, sender, p, amount, allowance)}})

\* ------------------------------------------------------------ administration
toggleStatus(p, sender) ==
    IF sender # Owner THEN [ok |-> FALSE, err |-> "Not factory owner", status |-> status]
    ELSE [ok |-> TRUE, err |-> "",
          status |-> [status EXCEPT ![p] = IF @ = ACTIVE THEN PAUSED
                                            ELSE IF @ = PAUSED THEN ACTIVE
                                            ELSE @]]

setStatus(p, sender, newStatus) ==
    IF sender # Owner THEN [ok |-> FALSE, err |-> "Not factory owner", status |-> status]
    ELSE [ok |-> TRUE, err |-> "", status |-> [status EXCEPT ![p] = newStatus]]

emergencyWithdraw(w, p, sender) ==
    IF sender # Owner THEN Revert(w, "Not factory owner")
    ELSE IF status[p] # INACTIVE THEN Revert(w, "Pool must be inactive")
    ELSE
    LET balance == w.tokenBalances[p]
        t == tokenTransfer(w, p, Owner, balance)
    IN IF balance > 0 THEN (IF t.ok THEN t ELSE Revert(w, t.err)) ELSE Ok(w)

\* PoolFactory.togglePoolStatus: the pool sees the factory as its caller.
togglePoolStatus(poolAddress, sender) ==
    IF sender # owner
    THEN [ok |-> FALSE, err |-> "PoolFactory: caller is not the owner",
          status |-> status]
    ELSE IF poolAddress = ZeroAddress
    THEN [ok |-> FALSE, err |-> "PoolFactory: invalid pool address",
          status |-> status]
    ELSE IF poolToRegion[poolAddress] = ""
    THEN [ok |-> FALSE, err |-> "PoolFactory: pool not found", status |-> status]
    ELSE toggleStatus(poolAddress, Factory)

\* ------------------------------------------------------------ behaviour
\* History of the phases of a fallbackPay: whether Phase 1 and Phase 2 were
\* called, what each moved into the paying pool, and the running total.
NoPhases == [phase1 |-> FALSE, phase2 |-> FALSE, moved1 |-> 0, moved2 |-> 0,
             total |-> 0]

NoStake == [stakedAmount |-> 0, collateralAmount |-> 0, lpTokensMinted |-> 0,
            stakeTimestamp |-> 0]

Init ==
    /\ owner = Owner
    /\ pools = [k \in 1..DemoPools |-> PoolAddrs[k]]
    /\ regionExists = {DemoRegions[k] : k \in 1..DemoPools}
    /\ poolToRegion = [p \in AllPools |->
                          IF \E k \in 1..DemoPools : PoolAddrs[k] = p
                          THEN DemoRegions[CHOOSE k \in 1..DemoPools : PoolAddrs[k] = p]
                          ELSE ""]
    /\ status = [p \in AllPools |-> ACTIVE]
    /\ totalLiquidityStaked = [p \in AllPools |-> 0]
    /\ totalDebt = [p \in AllPools |-> 0]
    /\ stakers = [p \in AllPools |-> [u \in Users |-> NoStake]]
    /\ userDebts = [p \in AllPools |-> [u \in Users |-> <<>>]]
    /\ debtRelatedUnstakeTimelock = [p \in AllPools |-> [u \in Users |-> 0]]
    /\ lpBalances = [p \in AllPools |-> [u \in Users |-> 0]]
    /\ lpTotalSupply = [p \in AllPools |-> 0]
    /\ tokenBalances = [a \in Holders |-> IF a \in Users THEN MintAmount ELSE 0]
    /\ hasReceivedInitialTokens = [a \in Holders |-> FALSE]
    /\ now = DeployTime
    /\ ticks = 0
    /\ nops = 0
    /\ debtLedger = [p \in AllPools |-> [u \in Users |-> <<>>]]
    /\ last = [op |-> "deploy", pool |-> "", user |-> "", amount |-> 0,
               target |-> "", ok |-> TRUE, note |-> "", drawn |-> 0, phases |-> NoPhases]

\* The world after a command: r.w when it succeeded, unchanged when it reverted.
Apply(r) ==
    /\ totalLiquidityStaked' = r.w.totalLiquidityStaked
    /\ totalDebt' = r.w.totalDebt
    /\ stakers' = r.w.stakers
    /\ userDebts' = r.w.userDebts
    /\ debtRelatedUnstakeTimelock' = r.w.debtRelatedUnstakeTimelock
    /\ lpBalances' = r.w.lpBalances
    /\ lpTotalSupply' = r.w.lpTotalSupply
    /\ tokenBalances' = r.w.tokenBalances
    /\ hasReceivedInitialTokens' = r.w.hasReceivedInitialTokens

\* The history of a command: the pool, the caller, the amount, the merchant or
\* destination, and the error when it reverted.
Outcome(op, p, u, a, t, r, note) ==
    [op |-> op, pool |-> p, user |-> u, amount |-> a, target |-> t, ok |-> r.ok,
     note |-> IF r.ok THEN note ELSE r.err, drawn |-> 0, phases |-> NoPhases]

\* A reverted command changes nothing but the history, so what can follow it
\* is what could follow the state before it: a behaviour is followed up to
\* its first revert, and up to MaxOps successful commands.
Budget(r) ==
    /\ last.ok
    /\ r.ok => nops < MaxOps
    /\ nops' = IF r.ok THEN nops + 1 ELSE nops

Deployed == {pools[i] : i \in 1..Len(pools)}

\* createPoolAllowed without the test of the region.
createPoolAllowed_anyRegion(sender, regionName) ==
    /\ sender = owner
    /\ regionName # ""

\* The modifier and the requires of createPool (the staking token is set by
\* the constructor).
createPoolAllowed(sender, regionName) ==
    /\ sender = owner
    /\ regionName # ""
    /\ regionName \notin regionExists

CreatePool(sender, regionName) ==
    LET ok == createPoolAllowed(sender, regionName)
        poolAddress == PoolAddrs[Len(pools) + 1]
    IN
    /\ last.ok
    /\ ok => Len(pools) < MaxPools
    /\ IF ok
       THEN /\ pools' = Append(pools, poolAddress)
            /\ regionExists' = regionExists \cup {regionName}
            /\ poolToRegion' = [poolToRegion EXCEPT ![poolAddress] = regionName]
       ELSE UNCHANGED <<pools, regionExists, poolToRegion>>
    /\ last' = [op |-> "createPool", pool |-> IF ok THEN poolAddress ELSE "",
                user |-> sender, amount |-> 0, target |-> regionName, ok |-> ok,
                drawn |-> 0, phases |-> NoPhases,
                note |-> IF ok THEN regionName
                         ELSE IF sender # owner THEN "PoolFactory: caller is not the owner"
                         ELSE IF regionName = "" THEN "PoolFactory: region name cannot be empty"
                         ELSE "PoolFactory: region already exists"]
    /\ UNCHANGED <<owner, status, poolVars, tokenVars, now, ticks,
                   nops, debtLedger>>

Stake(u, p, amount, allowance) ==
    /\ last.ok
    /\ \E r \in {stake(World, p, u, amount, allowance)} :
           /\ Budget(r)
           /\ Apply(r)
           /\ last' = Outcome("stake", p, u, amount, "", r, "")
           /\ UNCHANGED <<factoryVars, status, now, ticks, debtLedger>>

Unstake(u, p, lpTokenAmount) ==
    /\ last.ok
    /\ \E r \in {unstake(World, p, u, lpTokenAmount)} :
           /\ Budget(r)
           /\ Apply(r)
           /\ last' = Outcome("unstake", p, u, lpTokenAmount, "", r, "")
           /\ UNCHANGED <<factoryVars, status, now, ticks, debtLedger>>

\* History: the value the peers moved into pool p while the call ran,
\* whether or not the call then reverted.
DrawnFromPeers(w, p, u, merchantAddress, amount) ==
    IF \/ status[p] # ACTIVE
       \/ merchantAddress = ZeroAddress
       \/ fastPath(w, p, u, amount)
    THEN 0
    ELSE fallbackPhases(w, p, u, amount).w.totalLiquidityStaked[p]
             - w.totalLiquidityStaked[p]

\* History: the phases of fallbackPay(merchantAddress, amount) by u in p.
PhasesOf(w, p, u, merchantAddress, amount) ==
    IF \/ ~whenActive(p)
       \/ merchantAddress = ZeroAddress
       \/ fastPath(w, p, u, amount)
    THEN NoPhases
    ELSE The({The({[phase1 |-> phase1Runs(w, p, amount),
                    phase2 |-> r1.ok /\ r1.amount < amount,
                    moved1 |-> r1.w.totalLiquidityStaked[p]
                                 - w.totalLiquidityStaked[p],
                    moved2 |-> r2.w.totalLiquidityStaked[p]
                                 - r1.w.totalLiquidityStaked[p],
                    total |-> IF r2.ok
                              THEN r2.amount - getCollateralAvailable(w, p, u)
                              ELSE 0] :
                   r2 \in {fallbackPhases(w, p, u, amount)}}) :
              r1 \in {phase1(w, p, u, amount)}})

FallbackPay(u, p, merchantAddress, amount) ==
    /\ last.ok
    /\ Len(userDebts[p][u]) < MaxDebts
    /\ \E r \in {fallbackPay(World, p, u, merchantAddress, amount)} :
           /\ Budget(r)
           /\ Apply(r)
           /\ debtLedger' = IF r.ok
                            THEN [debtLedger EXCEPT ![p][u] =
                                     Append(@, [original |-> amount, repaid |-> 0,
                                                payments |-> 0])]
                            ELSE debtLedger
           /\ last' = [Outcome("fallbackPay", p, u, amount, merchantAddress, r,
                               IF fastPath(World, p, u, amount) THEN "fast"
                               ELSE "redistribution")
                          EXCEPT !.drawn = DrawnFromPeers(World, p, u, merchantAddress, amount),
                                 !.phases = PhasesOf(World, p, u, merchantAddress, amount)]
           /\ UNCHANGED <<factoryVars, status, now, ticks>>

RepayDebt(u, p, debtIndex, amount, allowance) ==
    /\ last.ok
    /\ \E r \in {repayDebt(World, p, u, debtIndex, amount, allowance)} :
           /\ UNCHANGED nops
           /\ Apply(r)
           /\ debtLedger' = IF r.ok
                            THEN [debtLedger EXCEPT ![p][u][debtIndex + 1] =
                                     [@ EXCEPT !.repaid = @ + amount,
                                               !.payments = @ + 1]]
                            ELSE debtLedger
           /\ last' = Outcome("repayDebt", p, u, amount, "", r, "")
           /\ UNCHANGED <<factoryVars, status, now, ticks>>

LpTransfer(u, p, to, amount) ==
    /\ last.ok
    /\ \E r \in {lpTransfer(World, p, u, to, amount)} :
           /\ Budget(r)
           /\ Apply(r)
           /\ last' = Outcome("lpTransfer", p, u, amount, to, r, "")
           /\ UNCHANGED <<factoryVars, status, now, ticks, debtLedger>>

TransferLiquidityToPool(sender, p, targetPool, user, amount) ==
    /\ last.ok
    /\ \E r \in {transferLiquidityToPool(World, p, sender, targetPool, user, amount)} :
           /\ Budget(r)
           /\ Apply(r)
           /\ last' = Outcome("transferLiquidityToPool", p, sender, amount, targetPool, r, "")
           /\ UNCHANGED <<factoryVars, status, now, ticks, debtLedger>>

ContributeLiquidityForPayment(sender, p, targetPool, user, amount) ==
    /\ last.ok
    /\ \E r \in {contributeLiquidityForPayment(World, p, sender, targetPool, user, amount)} :
           /\ Budget(r)
           /\ Apply(r)
           /\ last' = Outcome("contributeLiquidityForPayment", p, sender, amount, targetPool, r, "")
           /\ UNCHANGED <<factoryVars, status, now, ticks, debtLedger>>

ReceiveLiquidity(sender, p, amount) ==
    /\ last.ok
    /\ \E r \in {receiveLiquidity(World, p, sender, amount)} :
           /\ Budget(r)
           /\ Apply(r)
           /\ last' = Outcome("receiveLiquidity", p, sender, amount, "", r, "")
           /\ UNCHANGED <<factoryVars, status, now, ticks, debtLedger>>

ToggleStatus(sender, p) ==
    /\ last.ok
    /\ \E r \in {toggleStatus(p, sender)} :
           /\ Budget(r)
           /\ status' = r.status
           /\ last' = [op |-> "toggleStatus", pool |-> p, user |-> sender, amount |-> 0,
                       target |-> "", ok |-> r.ok, note |-> r.err, drawn |-> 0, phases |-> NoPhases]
           /\ UNCHANGED <<factoryVars, poolVars, tokenVars, now, ticks,
                          debtLedger>>

SetStatus(sender, p, newStatus) ==
    /\ last.ok
    /\ \E r \in {setStatus(p, sender, newStatus)} :
           /\ Budget(r)
           /\ status' = r.status
           /\ last' = [op |-> "setStatus", pool |-> p, user |-> sender, amount |-> 0,
                       target |-> "", ok |-> r.ok, note |-> r.err, drawn |-> 0, phases |-> NoPhases]
           /\ UNCHANGED <<factoryVars, poolVars, tokenVars, now, ticks,
                          debtLedger>>

TogglePoolStatus(sender, poolAddress) ==
    /\ last.ok
    /\ \E r \in {togglePoolStatus(poolAddress, sender)} :
           /\ Budget(r)
           /\ status' = r.status
           /\ last' = [op |-> "togglePoolStatus", pool |-> poolAddress,
                       user |-> sender, amount |-> 0, target |-> "",
                       ok |-> r.ok, note |-> r.err, drawn |-> 0,
                       phases |-> NoPhases]
           /\ UNCHANGED <<factoryVars, poolVars, tokenVars, now, ticks,
                          debtLedger>>

EmergencyWithdraw(sender, p) ==
    /\ last.ok
    /\ \E r \in {emergencyWithdraw(World, p, sender)} :
           /\ Budget(r)
           /\ Apply(r)
           /\ last' = Outcome("emergencyWithdraw", p, sender, 0, "", r, "")
           /\ UNCHANGED <<factoryVars, status, now, ticks, debtLedger>>

Tick ==
    /\ last.ok
    /\ ticks < MaxTicks
    /\ ticks' = ticks + 1
    /\ now' = now + BlockInterval
    /\ last' = [op |-> "tick", pool |-> "", user |-> "", amount |-> 0,
                target |-> "", ok |-> TRUE, note |-> "", drawn |-> 0, phases |-> NoPhases]
    /\ UNCHANGED <<factoryVars, status, poolVars, tokenVars, nops,
                   debtLedger>>

Next ==
    \/ \E s \in {Owner, Outsider}, r \in Regions \cup {""} : CreatePool(s, r)
    \/ \E u \in Users, p \in Deployed, a \in StakeAmounts :
          \E al \in {0, a} : Stake(u, p, a, al)
    \/ \E u \in Users, p \in Deployed :
          \E a \in LpAmounts \cup {stakers[p][u].lpTokensMinted} : Unstake(u, p, a)
    \/ \E u \in Users, p \in Deployed, m \in {Merchant, ZeroAddress},
          a \in PayAmounts : FallbackPay(u, p, m, a)
    \/ \E u \in Users, p \in Deployed, i \in 0..MaxDebts - 1,
          a \in RepayAmounts : \E al \in {0, a} : RepayDebt(u, p, i, a, al)
    \/ \E u \in Users, p \in Deployed :
          \E to \in Users \ {u}, a \in LpAmounts \cup {lpBalances[p][u]} :
              LpTransfer(u, p, to, a)
    \/ \E p \in Deployed, t \in Deployed \cup {Outsider}, u \in Users,
          a \in MoveAmounts : TransferLiquidityToPool(Outsider, p, t, u, a)
    \/ \E p \in Deployed, t \in Deployed \cup {Outsider}, u \in Users,
          a \in MoveAmounts : ContributeLiquidityForPayment(Outsider, p, t, u, a)
    \/ \E p \in Deployed, a \in MoveAmounts : ReceiveLiquidity(Outsider, p, a)
    \/ \E s \in {Owner, Outsider}, p \in Deployed : ToggleStatus(s, p)
    \/ \E s \in {Owner, Outsider}, p \in Deployed, st \in PoolStatusContract :
          SetStatus(s, p, st)
    \/ \E s \in {Owner, Outsider}, p \in Deployed : EmergencyWithdraw(s, p)
    \/ \E s \in {Owner, Outsider}, p \in AllPools : TogglePoolStatus(s, p)

Spec == Init /\ [][Next]_vars

\* The commands that read or write a timestamp, with the passing of time.
NextTime ==
    \/ \E u \in Users, p \in Deployed, a \in StakeAmounts : Stake(u, p, a, a)
    \/ \E u \in Users, p \in Deployed :
          \E a \in LpAmounts \cup {stakers[p][u].lpTokensMinted} : Unstake(u, p, a)
    \/ \E u \in Users, p \in Deployed, a \in PayAmounts :
          FallbackPay(u, p, Merchant, a)
    \/ \E u \in Users, p \in Deployed, i \in 0..MaxDebts - 1,
          a \in RepayAmounts : RepayDebt(u, p, i, a, a)
    \/ Tick

SpecTime == Init /\ [][NextTime]_vars

\* ------------------------------------------------------------ three pools
\* The pool and token state right after the migration, before any command.
Fresh ==
    [totalLiquidityStaked |-> [p \in AllPools |-> 0],
     totalDebt |-> [p \in AllPools |-> 0],
     stakers |-> [p \in AllPools |-> [u \in Users |-> NoStake]],
     userDebts |-> [p \in AllPools |-> [u \in Users |-> <<>>]],
     debtRelatedUnstakeTimelock |-> [p \in AllPools |-> [u \in Users |-> 0]],
     lpBalances |-> [p \in AllPools |-> [u \in Users |-> 0]],
     lpTotalSupply |-> [p \in AllPools |-> 0],
     tokenBalances |-> [a \in Holders |-> IF a \in Users THEN MintAmount ELSE 0],
     hasReceivedInitialTokens |-> [a \in Holders |-> FALSE]]

RECURSIVE StakeEach(_, _, _, _)
\* `u` stakes amounts[k] in the k-th pool, for k, k + 1, ..., each with the
\* approval the front end gives; the first revert ends the sequence.
StakeEach(w, u, amounts, k) ==
    IF k > Len(amounts) THEN Ok(w)
    ELSE The({IF r.ok THEN StakeEach(r.w, u, amounts, k + 1) ELSE r :
              r \in {stake(w, PoolAddrs[k], u, amounts[k], amounts[k])}})

\* The three pools of the migration, all Active, after u1 has staked in each
\* of them what the mint allows.
InitPeers ==
    /\ owner = Owner
    /\ pools = [k \in 1..MigratedPools |-> PoolAddrs[k]]
    /\ regionExists = {DemoRegions[k] : k \in 1..MigratedPools}
    /\ poolToRegion = [p \in AllPools |->
                          IF \E k \in 1..MigratedPools : PoolAddrs[k] = p
                          THEN DemoRegions[CHOOSE k \in 1..MigratedPools :
                                              PoolAddrs[k] = p]
                          ELSE ""]
    /\ status = [p \in AllPools |-> ACTIVE]
    /\ now = DeployTime
    /\ ticks = 0
    /\ nops = 0
    /\ debtLedger = [p \in AllPools |-> [u \in Users |-> <<>>]]
    /\ \E amounts \in [1..MigratedPools -> StakeAmounts] :
          \E r \in {StakeEach(Fresh, "u1", amounts, 1)} :
              /\ r.ok
              /\ totalLiquidityStaked = r.w.totalLiquidityStaked
              /\ totalDebt = r.w.totalDebt
              /\ stakers = r.w.stakers
              /\ userDebts = r.w.userDebts
              /\ debtRelatedUnstakeTimelock = r.w.debtRelatedUnstakeTimelock
              /\ lpBalances = r.w.lpBalances
              /\ lpTotalSupply = r.w.lpTotalSupply
              /\ tokenBalances = r.w.tokenBalances
              /\ hasReceivedInitialTokens = r.w.hasReceivedInitialTokens
              /\ last = [op |-> "stake", pool |-> PoolAddrs[MigratedPools],
                         user |-> "u1", amount |-> amounts[MigratedPools],
                         target |-> "", ok |-> TRUE, note |-> "", drawn |-> 0,
                         phases |-> NoPhases]

\* The owner's status and withdrawal commands, and the payments of the users.
NextPeers ==
    \/ \E p \in Deployed, st \in PoolStatusContract : SetStatus(Owner, p, st)
    \/ \E p \in Deployed : EmergencyWithdraw(Owner, p)
    \/ \E u \in Users, p \in Deployed, a \in PayAmounts :
          FallbackPay(u, p, Merchant, a)

SpecPeers == InitPeers /\ [][NextPeers]_vars

\* ------------------------------------------------------------ repeated stakes
RECURSIVE StakeSeq(_, _, _, _)
\* `u` sends the stake commands cmds[k], cmds[k + 1], ..., each a pair of a
\* registry index and an amount, with the approval the front end gives; the
\* first revert ends the sequence.
StakeSeq(w, u, cmds, k) ==
    IF k > Len(cmds) THEN Ok(w)
    ELSE The({IF r.ok THEN StakeSeq(r.w, u, cmds, k + 1) ELSE r :
              r \in {stake(w, PoolAddrs[cmds[k][1]], u, cmds[k][2], cmds[k][2])}})

\* The three pools of the migration, all Active, after u1 has staked twice in
\* the first pool and once in the second.
InitDraws ==
    /\ owner = Owner
    /\ pools = [k \in 1..MigratedPools |-> PoolAddrs[k]]
    /\ regionExists = {DemoRegions[k] : k \in 1..MigratedPools}
    /\ poolToRegion = [p \in AllPools |->
                          IF \E k \in 1..MigratedPools : PoolAddrs[k] = p
                          THEN DemoRegions[CHOOSE k \in 1..MigratedPools :
                                              PoolAddrs[k] = p]
                          ELSE ""]
    /\ status = [p \in AllPools |-> ACTIVE]
    /\ now = DeployTime
    /\ ticks = 0
    /\ nops = 0
    /\ debtLedger = [p \in AllPools |-> [u \in Users |-> <<>>]]
    /\ \E a1 \in StakeAmounts, a2 \in StakeAmounts, a3 \in StakeAmounts :
          \E r \in {StakeSeq(Fresh, "u1", <<<<1, a1>>, <<1, a2>>, <<2, a3>>>>, 1)} :
              /\ r.ok
              /\ totalLiquidityStaked = r.w.totalLiquidityStaked
              /\ totalDebt = r.w.totalDebt
              /\ stakers = r.w.stakers
              /\ userDebts = r.w.userDebts
              /\ debtRelatedUnstakeTimelock = r.w.debtRelatedUnstakeTimelock
              /\ lpBalances = r.w.lpBalances
              /\ lpTotalSupply = r.w.lpTotalSupply
              /\ tokenBalances = r.w.tokenBalances
              /\ hasReceivedInitialTokens = r.w.hasReceivedInitialTokens
              /\ last = [op |-> "stake", pool |-> PoolAddrs[2],
                         user |-> "u1", amount |-> a3,
                         target |-> "", ok |-> TRUE, note |-> "", drawn |-> 0,
                         phases |-> NoPhases]

\* Payments of the users, and liquidity moved between pools.
NextDraws ==
    \/ \E u \in Users, p \in Deployed, a \in PayAmounts :
          FallbackPay(u, p, Merchant, a)
    \/ \E p \in Deployed, t \in Deployed, a \in MoveAmounts :
          TransferLiquidityToPool(Outsider, p, t, "u1", a)

SpecDraws == InitDraws /\ [][NextDraws]_vars

\* ------------------------------------------------------------ properties
Collateral(x) == (x * COLLATERAL_PERCENTAGE_BP) \div BASIS_POINTS

RECURSIVE PeerSum(_, _, _)
\* The sum of f over the registered pools other than p, from index i on.
PeerSum(f, p, i) ==
    IF i > Len(pools) THEN 0
    ELSE (IF pools[i] = p THEN 0 ELSE f[pools[i]]) + PeerSum(f, p, i + 1)

\* The state of one pool, with its token custody.
PoolState(q) ==
    <<totalLiquidityStaked[q], totalDebt[q], stakers[q], userDebts[q],
      debtRelatedUnstakeTimelock[q], lpBalances[q], lpTotalSupply[q],
      tokenBalances[q]>>

\* C1 (global solvency): a fallbackPay that succeeds, on the fast path or
\* after redistribution, pays no more than the caller's collateral summed over
\* all pools as it was stored when the call started.
C1_GlobalSolvency ==
    [][(last'.op = "fallbackPay" /\ last'.ok)
         => last'.amount
              <= getTotalCollateralAcrossPools(World, last'.pool, last'.user)]_vars

C1_Witness ==
    /\ last.op = "fallbackPay"
    /\ last.ok
    /\ last.note = "redistribution"
    /\ last.drawn > 0

\* C2 (atomicity): a fallbackPay that fails, at whatever point, leaves every
\* pool's liquidity, shares, stakes, debts and token custody as they were
\* before the call, also when peers had already moved value during the call.
C2_Atomicity ==
    [][(last'.op = "fallbackPay" /\ ~last'.ok)
         => UNCHANGED <<poolVars, tokenVars>>]_vars

C2_Witness ==
    /\ last.op = "fallbackPay"
    /\ ~last.ok
    /\ last.drawn > 0

\* C3 (cross-pool authorisation), as claimed: a transferLiquidityToPool or
\* contributeLiquidityForPayment called by an address that is not a
\* registered pool never reduces any pool's totalLiquidity.
C3_OnlyRegisteredPools ==
    [][(/\ last'.op \in {"transferLiquidityToPool", "contributeLiquidityForPayment"}
        /\ ~Registered(last'.user))
         => \A q \in AllPools :
                totalLiquidityStaked'[q] >= totalLiquidityStaked[q]]_vars

RECURSIVE SumBalances(_, _)
\* The sum of the balances f of the holders in S.
SumBalances(f, S) ==
    IF S = {} THEN 0
    ELSE LET h == CHOOSE x \in S : TRUE
         IN f[h] + SumBalances(f, S \ {h})

\* C4 (share conservation): in every reachable state the share balances of a
\* pool add up to its share supply.
C4_ShareConservation ==
    \A p \in AllPools : SumBalances(lpBalances[p], Users) = lpTotalSupply[p]

C4_Witness ==
    /\ last.op = "unstake"
    /\ last.ok
    /\ \E p \in AllPools, u \in Users :
          /\ lpBalances[p][u] > 0
          /\ stakers[p][u].lpTokensMinted = 0

\* C5 (collateral consistency), as claimed: right after a successful stake or
\* unstake the caller's stored collateral is 20% of the stored stake.
C5_CollateralConsistency ==
    [][(last'.op \in {"stake", "unstake"} /\ last'.ok)
         => stakers'[last'.pool][last'.user].collateralAmount
              = Collateral(stakers'[last'.pool][last'.user].stakedAmount)]_vars

\* C6 (error of an over-collateral payment), as claimed: a fallbackPay on an
\* Active pool, to a valid merchant, for more than the caller's collateral
\* over all pools fails with "Exceeds collateral limit" and changes nothing.
C6_ExceedsGlobalCollateral ==
    [][(/\ last'.op = "fallbackPay"
        /\ last'.target # ZeroAddress
        /\ status[last'.pool] = ACTIVE
        /\ last'.amount
             > getTotalCollateralAcrossPools(World, last'.pool, last'.user))
         => /\ ~last'.ok
            /\ last'.note = "Exceeds collateral limit"
            /\ UNCHANGED <<poolVars, tokenVars>>]_vars

\* C7 (cross-pool funding), as claimed: with all pools Active, no active debt
\* of the caller anywhere, local collateral c > 0 and every peer's liquidity
\* covering the caller's collateral there, a fallbackPay of c < amount <=
\* total collateral succeeds, the peers lose amount - c in total and the
\* paying pool gains that and is debited by amount.
C7_CrossPoolFunding ==
    [][(LET p == last'.pool
            u == last'.user
            c == stakers[p][u].collateralAmount
        IN /\ last'.op = "fallbackPay"
           /\ last'.target = Merchant
           /\ \A q \in Deployed :
                 /\ status[q] = ACTIVE
                 /\ SumUnrepaid(userDebts[q][u]) = 0
                 /\ q # p => totalLiquidityStaked[q] >= stakers[q][u].collateralAmount
           /\ c > 0
           /\ c < last'.amount
           /\ last'.amount <= getTotalCollateralAcrossPools(World, p, u))
         => (LET p == last'.pool
                 c == stakers[p][last'.user].collateralAmount
             IN /\ last'.ok
                /\ PeerSum(totalLiquidityStaked, p, 1)
                     - PeerSum(totalLiquidityStaked', p, 1) = last'.amount - c
                /\ totalLiquidityStaked'[p]
                     = totalLiquidityStaked[p] + (last'.amount - c) - last'.amount)]_vars

\* The effect C8 states for a fast-path payment of a by u in p to merchant m.
FastPathEffect(p, u, a, m) ==
    /\ last'.ok
    /\ \A q \in AllPools \ {p} : PoolState(q)' = PoolState(q)
    /\ stakers'[p][u].stakedAmount = stakers[p][u].stakedAmount - a
    /\ totalLiquidityStaked'[p] = totalLiquidityStaked[p] - a
    /\ stakers'[p][u].collateralAmount = Collateral(stakers'[p][u].stakedAmount)
    /\ userDebts'[p][u] =
           Append(userDebts[p][u],
                  [user |-> u, merchantAddress |-> m, amount |-> a,
                   timestamp |-> now, isRepaid |-> FALSE])

\* C8 (fast path), as claimed: on an Active pool and for a valid merchant,
\* whenever the caller's available collateral and the pool's liquidity both
\* cover the amount, fallbackPay succeeds, changes no peer pool, lowers the
\* caller's stake and the pool's liquidity by the amount, stores 20% of the
\* new stake as collateral and appends one unrepaid debt of the amount.
C8_FastPath ==
    [][(/\ last'.op = "fallbackPay"
        /\ last'.target # ZeroAddress
        /\ status[last'.pool] = ACTIVE
        /\ fastPath(World, last'.pool, last'.user, last'.amount))
         => FastPathEffect(last'.pool, last'.user, last'.amount, last'.target)]_vars

\* The collateral an unstake of lpTokenAmount by u in p would leave.
RemainingCollateral(p, u, lpTokenAmount) ==
    stakers[p][u].collateralAmount
      - (stakers[p][u].collateralAmount
           * ((lpTokenAmount * BASIS_POINTS) \div stakers[p][u].lpTokensMinted))
          \div BASIS_POINTS

\* C9 (unstake collateral guard): an unstake of shares the caller was minted
\* that would leave less collateral than the caller's unrepaid debt in the
\* pool never succeeds and changes nothing; on an Active pool it fails with
\* "Insufficient collateral".
C9_UnstakeGuard ==
    [][(/\ last'.op = "unstake"
        /\ last'.amount > 0
        /\ last'.amount <= stakers[last'.pool][last'.user].lpTokensMinted
        /\ RemainingCollateral(last'.pool, last'.user, last'.amount)
             < SumUnrepaid(userDebts[last'.pool][last'.user]))
         => /\ ~last'.ok
            /\ UNCHANGED <<poolVars, tokenVars>>
            /\ status[last'.pool] = ACTIVE
                 => last'.note = "Insufficient collateral"]_vars

C9_Witness ==
    /\ last.op = "unstake"
    /\ ~last.ok
    /\ last.note = "Insufficient collateral"

RECURSIVE Outstanding(_)
\* The sum of original - repaid over a list of debt histories.
Outstanding(hs) ==
    IF hs = <<>> THEN 0
    ELSE (Head(hs).original - Head(hs).repaid) + Outstanding(Tail(hs))

\* C10 (debt round-trip): a debt whose repayments add up to its original
\* amount is marked repaid; a user all of whose debts in a pool are so repaid
\* has no active debt there; and the pool's totalDebt is what is still
\* outstanding, so it has fallen by the original amount of every such debt.
C10_DebtRoundTrip ==
    \A p \in AllPools :
        /\ \A u \in Users :
              /\ Len(debtLedger[p][u]) = Len(userDebts[p][u])
              /\ \A i \in 1..Len(userDebts[p][u]) :
                    debtLedger[p][u][i].repaid = debtLedger[p][u][i].original
                        => userDebts[p][u][i].isRepaid
              /\ Outstanding(debtLedger[p][u]) = 0
                    => SumUnrepaid(userDebts[p][u]) = 0
        /\ totalDebt[p] = Outstanding(debtLedger[p]["u1"])
                            + Outstanding(debtLedger[p]["u2"])

C10_Witness ==
    \E p \in AllPools, u \in Users :
        /\ Len(debtLedger[p][u]) = 1
        /\ debtLedger[p][u][1].payments >= 2
        /\ debtLedger[p][u][1].repaid = debtLedger[p][u][1].original
        /\ totalDebt[p] = 0

\* The sum of the stored stakes of a pool.
StakedIn(p) ==
    SumBalances([u \in Users |-> stakers[p][u].stakedAmount], Users)

UnrepaidIn(p) ==
    SumBalances([u \in Users |-> SumUnrepaid(userDebts[p][u])], Users)

\* C12 (totalDebt): in every reachable state the totalDebt of a pool is the
\* sum of the amounts of its debts that are not marked repaid.
C12_TotalDebtIsSumOfUnrepaid ==
    \A p \in AllPools : totalDebt[p] = UnrepaidIn(p)

C12_Witness ==
    \E p \in AllPools, u \in Users :
        /\ Len(userDebts[p][u]) = 2
        /\ userDebts[p][u][1].isRepaid
        /\ ~userDebts[p][u][2].isRepaid
        /\ debtLedger[p][u][2].repaid > 0

\* C13 (Inactive is terminal), as claimed: no step takes a pool whose status
\* is Inactive to another status.
C13_InactiveIsTerminal ==
    [][\A p \in AllPools : status[p] = INACTIVE => status'[p] = INACTIVE]_vars

\* C14 (PoolNotActive): a stake, unstake or fallbackPay on a pool that is
\* Paused or Inactive fails with "Pool not active" and changes no pool, no
\* token balance and no status.
C14_PoolNotActive ==
    [][(/\ last'.op \in {"stake", "unstake", "fallbackPay"}
        /\ status[last'.pool] \in {PAUSED, INACTIVE})
         => /\ ~last'.ok
            /\ last'.note = "Pool not active"
            /\ UNCHANGED <<poolVars, tokenVars, status>>]_vars

C14_Witness ==
    /\ last.op = "fallbackPay"
    /\ ~last.ok
    /\ last.note = "Pool not active"
    /\ status[last.pool] = PAUSED
    /\ last.target = Merchant
    /\ getCollateralAvailable(World, last.pool, last.user) >= last.amount
    /\ totalLiquidityStaked[last.pool] >= last.amount

\* C15 (togglePoolStatus through the factory), as claimed: called by the
\* administrator for a registered pool that is Active or Paused, the
\* factory's togglePoolStatus succeeds and switches the status.
C15_TogglePoolStatus ==
    [][(/\ last'.op = "togglePoolStatus"
        /\ last'.user = owner
        /\ Registered(last'.pool)
        /\ status[last'.pool] \in {ACTIVE, PAUSED})
         => /\ last'.ok
            /\ status'[last'.pool]
                 = IF status[last'.pool] = ACTIVE THEN PAUSED ELSE ACTIVE]_vars

\* C16 (createPool rejects duplicates): a createPool for a region that is
\* registered fails and leaves the registry as it was; after every step no
\* two registered pools have the same region, and the list of pools is the
\* list before the step or that list with one pool appended.
C16_CreatePoolDuplicates ==
    [][/\ (last'.op = "createPool" /\ last'.target \in regionExists)
             => ~last'.ok /\ UNCHANGED factoryVars
       /\ \A i, j \in 1..Len(pools') :
             i # j => /\ pools'[i] # pools'[j]
                      /\ poolToRegion'[pools'[i]] # poolToRegion'[pools'[j]]
       /\ Len(pools') >= Len(pools)
       /\ Len(pools') <= Len(pools) + 1
       /\ SubSeq(pools', 1, Len(pools)) = pools]_vars

C16_Witness ==
    /\ last.op = "createPool"
    /\ ~last.ok
    /\ last.note = "PoolFactory: region already exists"
    /\ last.target = poolToRegion[pools[Len(pools)]]
    /\ Len(pools) > DemoPools

\* A peer whose outbound commands fail: it holds no staking token and the
\* token's first-interaction mint is spent, so the token transfer inside
\* transferLiquidityToPool and contributeLiquidityForPayment reverts.
PeerFails(q) == hasReceivedInitialTokens[q] /\ tokenBalances[q] = 0

\* C17 (fault containment): in every fallbackPay, a peer whose calls fail
\* keeps its whole state; the caller's running total grows by exactly what the
\* peers handed over in Phase 1 and Phase 2, so a failed call adds nothing to
\* it; when the payment succeeds the peers' liquidity has fallen and the
\* caller's has risen by that total (less the payment); and the error of a
\* peer's failed transfer is never the error the caller of fallbackPay gets.
C17_FaultContainment ==
    [][(last'.op = "fallbackPay")
        => /\ \A i \in 1..Len(pools) :
                  (pools[i] # last'.pool /\ PeerFails(pools[i]))
                      => PoolState(pools[i])' = PoolState(pools[i])
           /\ last'.phases.total = last'.phases.moved1 + last'.phases.moved2
           /\ last'.ok
                 => /\ PeerSum(totalLiquidityStaked', last'.pool, 1)
                         = PeerSum(totalLiquidityStaked, last'.pool, 1)
                             - last'.phases.total
                    /\ totalLiquidityStaked'[last'.pool]
                         = totalLiquidityStaked[last'.pool]
                             + last'.phases.total - last'.amount
           /\ last'.note \notin {"Transfer failed",
                                  "Contribution transfer failed"}]_vars

\* A payment has succeeded although a peer earlier in the registry, with
\* collateral and liquidity on its books, could not hand anything over: the
\* loop went on and a later peer supplied the shortfall.
C17_Witness ==
    /\ last.op = "fallbackPay"
    /\ last.ok
    /\ last.phases.total > 0
    /\ \E i, j \in 1..Len(pools) :
          /\ i < j
          /\ pools[i] # last.pool
          /\ pools[j] # last.pool
          /\ PeerFails(pools[i])
          /\ Collateral(stakers[pools[i]][last.user].stakedAmount) > 0
          /\ totalLiquidityStaked[pools[i]] > 0
          /\ totalLiquidityStaked[pools[j]] < StakedIn(pools[j])

\* C18 (phase ordering), as claimed: a fallbackPay in which Phase 2 draws
\* value from a peer has run Phase 1 over the peers first.
C18_PhaseOrdering ==
    [][(last'.op = "fallbackPay" /\ last'.phases.moved2 > 0)
         => last'.phases.phase1]_vars

\* What Phase 1 can draw for u from the peers of p: in each peer the
\* available collateral of u, bounded by the peer's liquidity.
PeerCapacity(p, u) ==
    PeerSum([q \in AllPools |->
                Min(getCollateralAvailable(World, q, u), totalLiquidityStaked[q])],
            p, 1)

\* C19 (liquidity shortfall), as claimed: with all pools Active, local
\* available collateral >= amount, local totalLiquidity < amount and peers
\* able to supply the missing value, fallbackPay succeeds and appends an
\* unrepaid debt of the amount.
C19_LiquidityShortfall ==
    [][(/\ last'.op = "fallbackPay"
        /\ last'.target = Merchant
        /\ \A q \in Deployed : status[q] = ACTIVE
        /\ getCollateralAvailable(World, last'.pool, last'.user) >= last'.amount
        /\ totalLiquidityStaked[last'.pool] < last'.amount
        /\ PeerCapacity(last'.pool, last'.user)
             >= last'.amount - totalLiquidityStaked[last'.pool])
         => /\ last'.ok
            /\ userDebts'[last'.pool][last'.user] =
                   Append(userDebts[last'.pool][last'.user],
                          [user |-> last'.user, merchantAddress |-> last'.target,
                           amount |-> last'.amount, timestamp |-> now,
                           isRepaid |-> FALSE])]_vars

\* C20 (share minting on stake): a successful stake of amount mints amount
\* shares when the share supply is zero and amount * supply / totalLiquidity
\* otherwise (values before the stake); the caller's stakedAmount and the
\* pool's totalLiquidity rise by amount, the caller's lpTokensMinted and share
\* balance and the share supply by the minted shares.
C20_ShareMinting ==
    [][(last'.op = "stake" /\ last'.ok)
         => LET p == last'.pool
                u == last'.user
                a == last'.amount
                shares == IF lpTotalSupply[p] = 0 THEN a
                          ELSE (a * lpTotalSupply[p]) \div totalLiquidityStaked[p]
            IN /\ stakers'[p][u].stakedAmount = stakers[p][u].stakedAmount + a
               /\ totalLiquidityStaked'[p] = totalLiquidityStaked[p] + a
               /\ stakers'[p][u].lpTokensMinted
                    = stakers[p][u].lpTokensMinted + shares
               /\ lpBalances'[p][u] = lpBalances[p][u] + shares
               /\ lpTotalSupply'[p] = lpTotalSupply[p] + shares]_vars

C20_Witness ==
    /\ last.op = "stake"
    /\ last.ok
    /\ stakers[last.pool][last.user].lpTokensMinted
         > stakers[last.pool][last.user].stakedAmount
    /\ \E u \in Users \ {last.user} : lpBalances[last.pool][u] > 0

\* C21 (stake has no further precondition), as claimed: a stake of a positive
\* amount on an Active pool, by a caller who holds the amount and has approved
\* it to the pool, succeeds.
C21_StakeSucceeds ==
    [][(/\ last'.op = "stake"
        /\ status[last'.pool] = ACTIVE
        /\ last'.amount > 0
        /\ tokenBalances[last'.user] >= last'.amount
        /\ last'.note # "ERC20InsufficientAllowance")
        => last'.ok]_vars

\* C22 (proportional unstake), as claimed: a successful unstake pays the
\* caller stakedAmount * shareAmount / sharesMinted, rounded down, takes that
\* value off the caller's stakedAmount and the pool's totalLiquidity, and burns
\* shareAmount shares; an unstake of more shares than were minted to the
\* caller fails and changes nothing.
C22_ProportionalUnstake ==
    [][(last'.op = "unstake")
        => LET p == last'.pool
               u == last'.user
               a == last'.amount
               st == stakers[p][u]
               value == (st.stakedAmount * a) \div st.lpTokensMinted
           IN /\ last'.ok
                   => /\ 0 < a /\ a <= st.lpTokensMinted
                      /\ tokenBalances'[u] = tokenBalances[u] + value
                      /\ stakers'[p][u].stakedAmount = st.stakedAmount - value
                      /\ totalLiquidityStaked'[p] = totalLiquidityStaked[p] - value
                      /\ stakers'[p][u].lpTokensMinted = st.lpTokensMinted - a
                      /\ lpBalances'[p][u] = lpBalances[p][u] - a
                      /\ lpTotalSupply'[p] = lpTotalSupply[p] - a
              /\ a > st.lpTokensMinted
                   => ~last'.ok /\ World' = World /\ status' = status]_vars

\* C22, amended: the value paid is the stake times the proportion in basis
\* points, each of the two divisions rounded down.
C22_BasisPointUnstake ==
    [][(last'.op = "unstake")
        => LET p == last'.pool
               u == last'.user
               a == last'.amount
               st == stakers[p][u]
               proportion == (a * BASIS_POINTS) \div st.lpTokensMinted
               value == (st.stakedAmount * proportion) \div BASIS_POINTS
           IN /\ last'.ok
                   => /\ 0 < a /\ a <= st.lpTokensMinted
                      /\ tokenBalances'[u] = tokenBalances[u] + value
                      /\ stakers'[p][u].stakedAmount = st.stakedAmount - value
                      /\ totalLiquidityStaked'[p] = totalLiquidityStaked[p] - value
                      /\ stakers'[p][u].lpTokensMinted = st.lpTokensMinted - a
                      /\ lpBalances'[p][u] = lpBalances[p][u] - a
                      /\ lpTotalSupply'[p] = lpTotalSupply[p] - a
              /\ a > st.lpTokensMinted
                   => ~last'.ok /\ World' = World /\ status' = status]_vars

\* An unstake of one share out of thirty has succeeded and paid nothing.
C22_Witness ==
    /\ last.op = "unstake"
    /\ last.ok
    /\ last.amount = 1
    /\ stakers[last.pool][last.user].lpTokensMinted = 29
    /\ stakers[last.pool][last.user].stakedAmount = 30

\* C23 (the unstake timer tracks active debt): after every command, a user's
\* unstake timelock in a pool is zero exactly when the user has no unrepaid
\* debt there; a repayDebt that leaves a debt unrepaid leaves the timelock as
\* it was, and one that repays the last unrepaid debt sets it to zero.
C23_TimerTracksDebt ==
    [][/\ \A p \in AllPools, u \in Users :
            (debtRelatedUnstakeTimelock'[p][u] = 0)
                <=> (SumUnrepaid(userDebts'[p][u]) = 0)
       /\ (last'.op = "repayDebt" /\ last'.ok)
            => LET p == last'.pool
                   u == last'.user
               IN IF SumUnrepaid(userDebts'[p][u]) > 0
                  THEN /\ debtRelatedUnstakeTimelock'[p][u]
                            = debtRelatedUnstakeTimelock[p][u]
                       /\ debtRelatedUnstakeTimelock'[p][u] > 0
                  ELSE debtRelatedUnstakeTimelock'[p][u] = 0]_vars

\* A user with two debts in a pool has repaid one in full: the other keeps
\* the timelock set.
C23_Witness ==
    /\ last.op = "repayDebt"
    /\ last.ok
    /\ Len(userDebts[last.pool][last.user]) = 2
    /\ \E i \in 1..2 : userDebts[last.pool][last.user][i].isRepaid
    /\ SumUnrepaid(userDebts[last.pool][last.user]) > 0
    /\ debtRelatedUnstakeTimelock[last.pool][last.user] > 0

\* C24 (debt history is append-only): in every step and for every pool and
\* user, the debt list does not shrink; an entry keeps its position, user,
\* merchant and timestamp, its amount does not grow and a repaid entry stays
\* repaid; and the list grows only by one entry, at the end, in a successful
\* fallbackPay of that user on that pool.
C24_DebtsAppendOnly ==
    [][\A p \in AllPools, u \in Users :
          LET old == userDebts[p][u]
              new == userDebts'[p][u]
          IN /\ Len(new) >= Len(old)
             /\ \A i \in 1..Len(old) :
                   /\ new[i].user = old[i].user
                   /\ new[i].merchantAddress = old[i].merchantAddress
                   /\ new[i].timestamp = old[i].timestamp
                   /\ new[i].amount <= old[i].amount
                   /\ old[i].isRepaid => new[i].isRepaid
             /\ Len(new) > Len(old)
                   => /\ Len(new) = Len(old) + 1
                      /\ last'.op = "fallbackPay"
                      /\ last'.ok
                      /\ last'.pool = p
                      /\ last'.user = u]_vars

\* A second debt has been appended behind one that was repaid in full.
C24_Witness ==
    /\ last.op = "fallbackPay"
    /\ last.ok
    /\ Len(userDebts[last.pool][last.user]) = 2
    /\ userDebts[last.pool][last.user][1].isRepaid
    /\ ~userDebts[last.pool][last.user][2].isRepaid

\* The liquidity of all pools, and the stakes of all users in all pools.
TotalLiquidity == SumBalances(totalLiquidityStaked, AllPools)
TotalStaked == SumBalances([p \in AllPools |-> StakedIn(p)], AllPools)

\* C25 (global value conservation): after every command the liquidity of all
\* pools together equals the stakes of all users in all pools together;
\* transferLiquidityToPool, contributeLiquidityForPayment and receiveLiquidity
\* leave the total liquidity as it was; a command that fails changes neither.
C25_GlobalConservation ==
    [][/\ TotalLiquidity' = TotalStaked'
       /\ last'.op \in {"transferLiquidityToPool",
                        "contributeLiquidityForPayment", "receiveLiquidity"}
            => TotalLiquidity' = TotalLiquidity /\ TotalStaked' = TotalStaked
       /\ ~last'.ok
            => TotalLiquidity' = TotalLiquidity /\ TotalStaked' = TotalStaked]_vars

\* Liquidity has moved between two pools: the source pool holds less than its
\* users' stakes, the total is what it was.
C25_Witness ==
    /\ last.op \in {"transferLiquidityToPool", "contributeLiquidityForPayment"}
    /\ last.ok
    /\ last.pool # last.target
    /\ totalLiquidityStaked[last.pool] < StakedIn(last.pool)
    /\ totalLiquidityStaked[last.target] > StakedIn(last.target)
    /\ TotalLiquidity = TotalStaked

\* The unrepaid debt of user u in all pools, and u's stored collateral in all
\* pools.
ActiveDebtOf(u) ==
    SumBalances([p \in AllPools |-> SumUnrepaid(userDebts[p][u])], AllPools)
CollateralOf(u) ==
    SumBalances([p \in AllPools |-> stakers[p][u].collateralAmount], AllPools)

\* C26 (debt is covered by collateral), as claimed: in every state reached by
\* stake, unstake, fallbackPay and repayDebt, a user's unrepaid debt over all
\* pools is at most the user's collateralAmount over all pools.
C26_DebtCovered ==
    \A u \in Users : ActiveDebtOf(u) <= CollateralOf(u)

\* C27 (per-peer draw bound), as claimed: a successful fallbackPay takes from
\* no peer more than 20% of the caller's stakedAmount in that peer, and no
\* more than the peer's totalLiquidity when the call started.
C27_PerPeerDrawBound ==
    [][(last'.op = "fallbackPay" /\ last'.ok)
        => \A i \in 1..Len(pools) :
              pools[i] # last'.pool
                => LET q == pools[i]
                       moved == totalLiquidityStaked[q] - totalLiquidityStaked'[q]
                   IN /\ moved <= Collateral(stakers[q][last'.user].stakedAmount)
                      /\ moved <= totalLiquidityStaked[q]]_vars

\* C28 (a non-active peer is not drawn on), as claimed: a fallbackPay on one
\* pool leaves the totalLiquidity and the token custody of every peer that is
\* Paused or Inactive as they were.
C28_NonActivePeerUntouched ==
    [][(last'.op = "fallbackPay")
        => \A i \in 1..Len(pools) :
              (pools[i] # last'.pool /\ status[pools[i]] # ACTIVE)
                => /\ totalLiquidityStaked'[pools[i]] = totalLiquidityStaked[pools[i]]
                   /\ tokenBalances'[pools[i]] = tokenBalances[pools[i]]]_vars

\* C29 (the unstake restriction is enforced), as claimed: an unstake by a
\* user whose unstake timelock in the pool is later than the current time
\* fails and changes nothing.
C29_TimelockEnforced ==
    [][(/\ last'.op = "unstake"
        /\ debtRelatedUnstakeTimelock[last'.pool][last'.user] > now)
        => ~last'.ok /\ World' = World]_vars

\* C30 (debt-free stakers can always exit), as claimed: in every reachable
\* state, a user without unrepaid debt in an Active pool who holds all the
\* shares minted to them there can unstake all of them: the unstake succeeds
\* and pays the user's whole stakedAmount.
C30_DebtFreeExit ==
    \A p \in Deployed, u \in Users :
        (/\ status[p] = ACTIVE
         /\ SumUnrepaid(userDebts[p][u]) = 0
         /\ stakers[p][u].lpTokensMinted > 0
         /\ lpBalances[p][u] = stakers[p][u].lpTokensMinted)
            => \E r \in {unstake(World, p, u, stakers[p][u].lpTokensMinted)} :
                  /\ r.ok
                  /\ r.w.tokenBalances[u]
                       = tokenBalances[u] + stakers[p][u].stakedAmount
====
